---------------------------- MODULE Spec2Model ----------------------------
(***************************************************************************)
(* Model of src/lib/config.ts: the environment reader (getEnv,            *)
(* getEnvBoolean, getEnvNumber), the configuration object built once at   *)
(* module load, and the accessors getAuthHeader, isFeatureEnabled and      *)
(* getApiUrl.                                                              *)
(*                                                                         *)
(* JavaScript strings are TLA+ strings.  A JavaScript value is a record    *)
(* tagged with the result of typeof (plus "null"), so that || and && and   *)
(* truthiness are computed as the language computes them.                  *)
(***************************************************************************)
EXTENDS Integers, Sequences, FiniteSets, TLC

VARIABLES
    metaDefined,   \* typeof import.meta !== 'undefined'
    envDefined,    \* import.meta.env is an object
    env,           \* import.meta.env: the variables that are set, name -> string
    DEV,           \* import.meta.env.DEV
    PROD,          \* import.meta.env.PROD
    window,        \* what the host exposes: "undefined", "noStorage", "denied", "storage"
    localStorage,  \* window.localStorage: the items that are stored, key -> string
    pc,            \* "load" before the module body has run, "ready" after
    config,        \* the exported configuration object
    result         \* the outcome of the last accessor call

vars == <<metaDefined, envDefined, env, DEV, PROD, window, localStorage, pc, config, result>>

---------------------------------------------------------------------------
(* JavaScript values *)

JSString(s) == [type |-> "string", str |-> s, num |-> 0, bool |-> FALSE]

JSNumber(n) == [type |-> "number", str |-> "", num |-> n, bool |-> FALSE]

JSNaN == [type |-> "number", str |-> "NaN", num |-> 0, bool |-> FALSE]

JSBoolean(b) == [type |-> "boolean", str |-> "", num |-> 0, bool |-> b]

JSUndefined == [type |-> "undefined", str |-> "", num |-> 0, bool |-> FALSE]

JSNull == [type |-> "null", str |-> "", num |-> 0, bool |-> FALSE]

\* an object whose content is kept elsewhere (import.meta.env, window.localStorage)
JSObject == [type |-> "object", str |-> "", num |-> 0, bool |-> FALSE]

\* ToBoolean: "", 0, NaN, false, undefined and null are falsy, an object is truthy
Truthy(v) ==
    CASE v.type = "string" -> v.str # ""
      [] v.type = "number" -> v # JSNaN /\ v.num # 0
      [] v.type = "boolean" -> v.bool
      [] v.type = "object" -> TRUE
      [] OTHER -> FALSE

\* a || b
Or(a, b) == IF Truthy(a) THEN a ELSE b

\* a && b
And(a, b) == IF Truthy(a) THEN b ELSE a

\* the character at position i (1-based) of s
CharAt(s, i) == SubSeq(s, i, i)

\* the position of character c in s, 0 when absent (String.prototype.indexOf + 1)
IndexOf(c, s) ==
    IF \E i \in 1..Len(s) : CharAt(s, i) = c
    THEN CHOOSE i \in 1..Len(s) : CharAt(s, i) = c /\ \A j \in 1..(i - 1) : CharAt(s, j) # c
    ELSE 0

\* the printable ASCII characters U+0020..U+005F and U+0061..U+007E, in code order
AsciiLow == " !\"#$%&'()*+,-./0123456789:;<=>?@ABCDEFGHIJKLMNOPQRSTUVWXYZ[\\]^_"

AsciiHigh == "abcdefghijklmnopqrstuvwxyz{|}~"

Euro == "€"

\* the UTF-16 code unit of a character: printable ASCII, and U+20AC for Euro,
\* the one character outside them that the environments below use
CharCode(c) ==
    IF IndexOf(c, AsciiLow) > 0 THEN 31 + IndexOf(c, AsciiLow)
    ELSE IF IndexOf(c, AsciiHigh) > 0 THEN 96 + IndexOf(c, AsciiHigh)
    ELSE 8364

Digits == "0123456789"

IsDigits(s) == Len(s) > 0 /\ \A i \in 1..Len(s) : IndexOf(CharAt(s, i), Digits) > 0

RECURSIVE DigitsValue(_)
DigitsValue(s) ==
    IF Len(s) = 0 THEN 0
    ELSE 10 * DigitsValue(SubSeq(s, 1, Len(s) - 1)) + (IndexOf(CharAt(s, Len(s)), Digits) - 1)

\* Number(s) for a string without white space: 0 for the empty string, a decimal
\* integer with an optional sign, and NaN for anything that is not a numeric literal
Number(s) ==
    IF s = "" THEN JSNumber(0)
    ELSE IF IsDigits(s) THEN JSNumber(DigitsValue(s))
    ELSE IF Len(s) > 1 /\ Head(s) = "-" /\ IsDigits(Tail(s)) THEN JSNumber(0 - DigitsValue(Tail(s)))
    ELSE IF Len(s) > 1 /\ Head(s) = "+" /\ IsDigits(Tail(s)) THEN JSNumber(DigitsValue(Tail(s)))
    ELSE JSNaN

\* s.split(','): the segments between commas, empty ones included; never empty
RECURSIVE split(_)
split(s) ==
    LET i == IndexOf(",", s)
    IN  IF i = 0 THEN <<s>>
        ELSE <<SubSeq(s, 1, i - 1)>> \o split(SubSeq(s, i + 1, Len(s)))

\* filter that keeps every element
filterNothing(a) == a

\* a.filter(Boolean) on an array of strings
filterBoolean(a) == SelectSeq(a, LAMBDA x : Truthy(JSString(x)))

Base64Alphabet == "ABCDEFGHIJKLMNOPQRSTUVWXYZabcdefghijklmnopqrstuvwxyz0123456789+/"

Base64Char(n) == CharAt(Base64Alphabet, n + 1)

\* base64 of a sequence of bytes, three bytes to four characters, padded with =
RECURSIVE Base64(_)
Base64(b) ==
    IF Len(b) = 0 THEN ""
    ELSE IF Len(b) = 1 THEN
        Base64Char(b[1] \div 4) \o Base64Char((b[1] % 4) * 16) \o "=="
    ELSE IF Len(b) = 2 THEN
        Base64Char(b[1] \div 4) \o Base64Char((b[1] % 4) * 16 + b[2] \div 16)
            \o Base64Char((b[2] % 16) * 4) \o "="
    ELSE
        Base64Char(b[1] \div 4) \o Base64Char((b[1] % 4) * 16 + b[2] \div 16)
            \o Base64Char((b[2] % 16) * 4 + b[3] \div 64) \o Base64Char(b[3] % 64)
            \o Base64(SubSeq(b, 4, Len(b)))

\* btoa accepts only characters in the range U+0000 to U+00FF
btoaAccepts(s) == \A i \in 1..Len(s) : CharCode(CharAt(s, i)) <= 255

btoa(s) == Base64([i \in 1..Len(s) |-> CharCode(CharAt(s, i))])

---------------------------------------------------------------------------
(* Environment reader *)

\* import.meta.env[key]
envLookup(key) == IF key \in DOMAIN env THEN JSString(env[key]) ELSE JSUndefined

\* getEnv falling back only when the variable is absent (?? in place of ||)
getEnvNullish(key, defaultValue) ==
    IF metaDefined /\ envDefined /\ key \in DOMAIN env
    THEN JSString(env[key])
    ELSE JSString(defaultValue)

getEnv(key, defaultValue) ==
    IF metaDefined /\ envDefined
    THEN Or(envLookup(key), JSString(defaultValue))
    ELSE JSString(defaultValue)

\* getEnvBoolean reading "false" as false
getEnvBooleanParsed(key, defaultValue) ==
    LET value == getEnv(key, "")
    IN  IF value = JSString("true") THEN JSBoolean(TRUE)
        ELSE IF value = JSString("false") THEN JSBoolean(FALSE)
        ELSE JSBoolean(defaultValue)

getEnvBoolean(key, defaultValue) ==
    LET value == getEnv(key, "")
    IN  Or(JSBoolean(value = JSString("true")), JSBoolean(defaultValue))

\* getEnvNumber written as Number(value) || defaultValue
getEnvNumberOrDefault(key, defaultValue) ==
    Or(Number(getEnv(key, "").str), JSNumber(defaultValue))

getEnvNumber(key, defaultValue) ==
    LET value == getEnv(key, "")
    IN  IF Truthy(value) THEN Number(value.str) ELSE JSNumber(defaultValue)

\* typeof import.meta !== 'undefined' && import.meta.env && import.meta.env.<flag>
buildFlag(flag) ==
    And(And(JSBoolean(metaDefined), IF envDefined THEN JSObject ELSE JSUndefined), flag)

---------------------------------------------------------------------------
(* Configuration object *)

buildConfig ==
    [ api |->
        [ geodir |-> getEnv("VITE_GEODIR_API_URL", "https://shoplocal.kinsta.cloud/wp-json/geodir/v2"),
          wordpress |-> getEnv("VITE_WP_API_URL", "https://shoplocal.kinsta.cloud/wp-json/wp/v2"),
          dokan |-> getEnv("VITE_DOKAN_API_URL", "https://shoplocal.kinsta.cloud/wp-json/dokan/v1"),
          timeout |-> getEnvNumber("VITE_API_TIMEOUT", 10000) ],
      auth |->
        [ username |-> getEnv("VITE_WP_USERNAME", ""),
          appPassword |-> getEnv("VITE_WP_APP_PASSWORD", ""),
          token |-> getEnv("VITE_API_AUTH_TOKEN", ""),
          jwtSecret |-> getEnv("VITE_JWT_SECRET", ""),
          jwtExpiration |-> getEnv("VITE_JWT_EXPIRATION", "7d") ],
      services |->
        [ unsplash |-> getEnv("VITE_UNSPLASH_ACCESS_KEY", ""),
          googleMaps |-> getEnv("VITE_GOOGLE_MAPS_API_KEY", ""),
          stripe |->
            [ publishableKey |-> getEnv("VITE_STRIPE_PUBLISHABLE_KEY", ""),
              secretKey |-> getEnv("VITE_STRIPE_SECRET_KEY", "") ],
          paypal |->
            [ clientId |-> getEnv("VITE_PAYPAL_CLIENT_ID", ""),
              secret |-> getEnv("VITE_PAYPAL_SECRET", "") ] ],
      app |->
        [ env |-> getEnv("VITE_APP_ENV", "development"),
          url |-> getEnv("VITE_APP_URL", "http://localhost:5173"),
          isDevelopment |-> buildFlag(DEV),
          isProduction |-> buildFlag(PROD) ],
      pagination |->
        [ defaultPerPage |-> getEnvNumber("VITE_DEFAULT_PER_PAGE", 20),
          maxPerPage |-> getEnvNumber("VITE_MAX_PER_PAGE", 100) ],
      features |->
        [ reviews |-> getEnvBoolean("VITE_ENABLE_REVIEWS", TRUE),
          wishlist |-> getEnvBoolean("VITE_ENABLE_WISHLIST", TRUE),
          chat |-> getEnvBoolean("VITE_ENABLE_CHAT", FALSE),
          notifications |-> getEnvBoolean("VITE_ENABLE_NOTIFICATIONS", TRUE) ],
      email |->
        [ smtp |->
            [ host |-> getEnv("VITE_SMTP_HOST", ""),
              port |-> getEnvNumber("VITE_SMTP_PORT", 587),
              user |-> getEnv("VITE_SMTP_USER", ""),
              password |-> getEnv("VITE_SMTP_PASSWORD", "") ],
          from |-> getEnv("VITE_SMTP_FROM", "noreply@shoplocal.com"),
          fromName |-> getEnv("VITE_SMTP_FROM_NAME", "ShopLocal Marketplace") ],
      storage |->
        [ cdnUrl |-> getEnv("VITE_CDN_URL", ""),
          aws |->
            [ accessKeyId |-> getEnv("VITE_AWS_ACCESS_KEY_ID", ""),
              secretAccessKey |-> getEnv("VITE_AWS_SECRET_ACCESS_KEY", ""),
              region |-> getEnv("VITE_AWS_REGION", "us-east-1"),
              bucket |-> getEnv("VITE_AWS_S3_BUCKET", "") ] ],
      analytics |->
        [ googleAnalytics |-> getEnv("VITE_GA_TRACKING_ID", ""),
          facebookPixel |-> getEnv("VITE_FB_PIXEL_ID", ""),
          sentry |-> getEnv("VITE_SENTRY_DSN", "") ],
      security |->
        [ corsOrigins |-> filterBoolean(split(getEnv("VITE_CORS_ORIGINS", "").str)),
          rateLimit |->
            [ requests |-> getEnvNumber("VITE_RATE_LIMIT_REQUESTS", 100),
              window |-> getEnvNumber("VITE_RATE_LIMIT_WINDOW", 900000) ],
          sessionSecret |-> getEnv("VITE_SESSION_SECRET", "") ] ]

---------------------------------------------------------------------------
(* Accessors *)

\* a call that returned value v from the return statement at the given source line
Return(v, line) == [threw |-> "", value |-> v, line |-> line]

\* a call that ended by throwing the named exception at the given source line
Throw(name, line) == [threw |-> name, value |-> JSUndefined, line |-> line]

\* localStorage.getItem(key): the stored string, or null
getItem(key) == IF key \in DOMAIN localStorage THEN JSString(localStorage[key]) ELSE JSNull

\* getAuthHeader with the username/password branch tried before the token
getAuthHeaderCredentialsFirst ==
    IF Truthy(And(config.auth.username, config.auth.appPassword))
            /\ btoaAccepts(config.auth.username.str \o ":" \o config.auth.appPassword.str)
    THEN Return(JSString("Basic " \o btoa(config.auth.username.str \o ":" \o config.auth.appPassword.str)), 132)
    ELSE IF Truthy(config.auth.token)
    THEN Return(JSString("Basic " \o config.auth.token.str), 126)
    ELSE Return(JSString(""), 143)

\* getAuthHeader with the username/password branch taken when either one is set
getAuthHeaderEitherCredential ==
    IF Truthy(config.auth.token)
    THEN Return(JSString("Basic " \o config.auth.token.str), 126)
    ELSE IF Truthy(Or(config.auth.username, config.auth.appPassword))
    THEN LET credentials == config.auth.username.str \o ":" \o config.auth.appPassword.str
         IN  IF btoaAccepts(credentials)
             THEN Return(JSString("Basic " \o btoa(credentials)), 132)
             ELSE Throw("InvalidCharacterError", 131)
    ELSE IF window = "denied"
    THEN Throw("SecurityError", 136)
    ELSE IF window = "storage" /\ Truthy(getItem("authToken"))
    THEN Return(JSString("Basic " \o getItem("authToken").str), 139)
    ELSE Return(JSString(""), 143)

getAuthHeader ==
    IF Truthy(config.auth.token)
    THEN Return(JSString("Basic " \o config.auth.token.str), 126)
    ELSE IF Truthy(And(config.auth.username, config.auth.appPassword))
    THEN LET credentials == config.auth.username.str \o ":" \o config.auth.appPassword.str
         IN  IF btoaAccepts(credentials)
             THEN Return(JSString("Basic " \o btoa(credentials)), 132)
             ELSE Throw("InvalidCharacterError", 131)
    ELSE IF window = "denied"
    THEN Throw("SecurityError", 136)
    ELSE IF window = "storage"
    THEN LET storedToken == getItem("authToken")
         IN  IF Truthy(storedToken)
             THEN Return(JSString("Basic " \o storedToken.str), 139)
             ELSE Return(JSString(""), 143)
    ELSE Return(JSString(""), 143)

isFeatureEnabled(feature) == Return(config.features[feature], 150)

getApiUrl(service) == Return(config.api[service], 157)

Features == {"reviews", "wishlist", "chat", "notifications"}

Services == {"geodir", "wordpress", "dokan"}

\* the outcome of a call of accessor op with argument arg
Call(op, arg, outcome) ==
    [op |-> op, arg |-> arg, threw |-> outcome.threw, value |-> outcome.value, line |-> outcome.line]

NoCall == [op |-> "none", arg |-> "", threw |-> "", value |-> JSUndefined, line |-> 0]

---------------------------------------------------------------------------
(* The hosts and environments the module is loaded in *)

MaxVars == 1

MaxCredLen == 2

MaxCorsLen == 6

BooleanKeys ==
    {"VITE_ENABLE_REVIEWS", "VITE_ENABLE_WISHLIST", "VITE_ENABLE_CHAT", "VITE_ENABLE_NOTIFICATIONS"}

NumberKeys ==
    {"VITE_API_TIMEOUT", "VITE_DEFAULT_PER_PAGE", "VITE_MAX_PER_PAGE", "VITE_SMTP_PORT",
     "VITE_RATE_LIMIT_REQUESTS", "VITE_RATE_LIMIT_WINDOW"}

StringKeys ==
    {"VITE_GEODIR_API_URL", "VITE_WP_API_URL", "VITE_DOKAN_API_URL",
     "VITE_WP_USERNAME", "VITE_WP_APP_PASSWORD", "VITE_API_AUTH_TOKEN", "VITE_JWT_SECRET",
     "VITE_JWT_EXPIRATION",
     "VITE_UNSPLASH_ACCESS_KEY", "VITE_GOOGLE_MAPS_API_KEY", "VITE_STRIPE_PUBLISHABLE_KEY",
     "VITE_STRIPE_SECRET_KEY", "VITE_PAYPAL_CLIENT_ID", "VITE_PAYPAL_SECRET",
     "VITE_APP_ENV", "VITE_APP_URL",
     "VITE_SMTP_HOST", "VITE_SMTP_USER", "VITE_SMTP_PASSWORD", "VITE_SMTP_FROM",
     "VITE_SMTP_FROM_NAME",
     "VITE_CDN_URL", "VITE_AWS_ACCESS_KEY_ID", "VITE_AWS_SECRET_ACCESS_KEY", "VITE_AWS_REGION",
     "VITE_AWS_S3_BUCKET",
     "VITE_GA_TRACKING_ID", "VITE_FB_PIXEL_ID", "VITE_SENTRY_DSN",
     "VITE_SESSION_SECRET"}

CorsKey == "VITE_CORS_ORIGINS"

Keys == StringKeys \cup NumberKeys \cup BooleanKeys \cup {CorsKey}

\* the strings a variable of each kind is set to
ValuesOf(key) ==
    IF key \in BooleanKeys THEN {"", "true", "false", "1"}
    ELSE IF key \in NumberKeys THEN {"", "0", "42", "-7", "4x"}
    ELSE IF key = CorsKey THEN {"", "a,,b"}
    ELSE {"", "x"}

\* the strings of at most n characters over an alphabet
RECURSIVE StringsOver(_, _)
StringsOver(chars, n) ==
    IF n = 0 THEN {""}
    ELSE LET shorter == StringsOver(chars, n - 1)
         IN  shorter \cup {s \o c : s \in shorter, c \in chars}

NoVars == [key \in {} |-> ""]

Extend(e, key, value) == [k \in DOMAIN e \cup {key} |-> IF k = key THEN value ELSE e[k]]

\* the environments in which at most n variables are set
RECURSIVE Envs(_)
Envs(n) ==
    IF n = 0 THEN {NoVars}
    ELSE LET fewer == Envs(n - 1)
         IN  fewer \cup UNION {{Extend(e, key, value) : value \in ValuesOf(key)} :
                                 <<e, key>> \in {p \in fewer \X Keys : p[2] \notin DOMAIN p[1]}}

\* a host: whether import.meta and import.meta.env exist, and the build-mode flags.
\* Vite sets DEV and PROD to complementary booleans; another host that provides
\* import.meta.env leaves them unset; Node's import.meta has no env.
Host(meta, envObject, dev, prod) == [meta |-> meta, envObject |-> envObject, dev |-> dev, prod |-> prod]

ViteDev == Host(TRUE, TRUE, JSBoolean(TRUE), JSBoolean(FALSE))

ViteProd == Host(TRUE, TRUE, JSBoolean(FALSE), JSBoolean(TRUE))

PlainEnv == Host(TRUE, TRUE, JSUndefined, JSUndefined)

NoEnv == Host(TRUE, FALSE, JSUndefined, JSUndefined)

NoMeta == Host(FALSE, FALSE, JSUndefined, JSUndefined)

Hosts == {ViteDev, ViteProd, PlainEnv, NoEnv, NoMeta}

\* the browser storage: the kind of host, and what is stored under authToken
Storage(kind, items) == [kind |-> kind, items |-> items]

NoItems == [key \in {} |-> ""]

Stored(token) == [key \in {"authToken"} |-> token]

Storages ==
    {Storage("undefined", NoItems), Storage("noStorage", NoItems), Storage("denied", NoItems),
     Storage("storage", NoItems), Storage("storage", Stored("")), Storage("storage", Stored("S"))}

\* the state before the module body runs, in host h with variables e and storage st
Start(h, e, st) ==
    /\ metaDefined = h.meta
    /\ envDefined = h.envObject
    /\ env = IF h.envObject THEN e ELSE NoVars
    /\ DEV = h.dev
    /\ PROD = h.prod
    /\ window = st.kind
    /\ localStorage = st.items
    /\ pc = "load"
    /\ config = <<>>
    /\ result = NoCall

\* any host, with at most MaxVars variables set, in a browser that stores a token
Init ==
    \E h \in Hosts, e \in Envs(MaxVars) :
        /\ (~h.envObject => e = NoVars)
        /\ Start(h, e, Storage("storage", Stored("S")))

CredentialKeys == {"VITE_API_AUTH_TOKEN", "VITE_WP_USERNAME", "VITE_WP_APP_PASSWORD"}

\* the values of a credential variable; "unset" stands for the variable being absent
CredentialValues(key) ==
    {"unset"} \cup
    CASE key = "VITE_API_AUTH_TOKEN" -> {"", "T"}
      [] key = "VITE_WP_USERNAME" -> StringsOver({"u", Euro}, MaxCredLen)
      [] key = "VITE_WP_APP_PASSWORD" -> StringsOver({"p", ":"}, MaxCredLen)

CredentialEnvs ==
    {[key \in {k \in CredentialKeys : choice[k] # "unset"} |-> choice[key]] :
        choice \in [CredentialKeys -> UNION {CredentialValues(k) : k \in CredentialKeys}] }

\* the credential variables set or not, in every kind of browser storage
InitAuth ==
    \E h \in {ViteDev, NoEnv, NoMeta}, e \in CredentialEnvs, st \in Storages :
        /\ \A k \in DOMAIN e : e[k] \in CredentialValues(k)
        /\ (~h.envObject => e = NoVars)
        /\ Start(h, e, st)

\* VITE_CORS_ORIGINS set to a string of at most MaxCorsLen characters
InitCors ==
    \E s \in StringsOver({"a", "b", "c", ","}, MaxCorsLen) :
        Start(ViteDev, Extend(NoVars, CorsKey, s), Storage("undefined", NoItems))

---------------------------------------------------------------------------
(* Actions *)

\* the module body runs once: the configuration object is built
Load ==
    /\ pc = "load"
    /\ config' = buildConfig
    /\ pc' = "ready"
    /\ UNCHANGED <<metaDefined, envDefined, env, DEV, PROD, window, localStorage, result>>

GetAuthHeader ==
    /\ pc = "ready"
    /\ result' = Call("getAuthHeader", "", getAuthHeader)
    /\ UNCHANGED <<metaDefined, envDefined, env, DEV, PROD, window, localStorage, pc, config>>

IsFeatureEnabled ==
    /\ pc = "ready"
    /\ \E feature \in Features : result' = Call("isFeatureEnabled", feature, isFeatureEnabled(feature))
    /\ UNCHANGED <<metaDefined, envDefined, env, DEV, PROD, window, localStorage, pc, config>>

GetApiUrl ==
    /\ pc = "ready"
    /\ \E service \in Services : result' = Call("getApiUrl", service, getApiUrl(service))
    /\ UNCHANGED <<metaDefined, envDefined, env, DEV, PROD, window, localStorage, pc, config>>

Next == Load \/ GetAuthHeader \/ IsFeatureEnabled \/ GetApiUrl

Spec == Init /\ [][Next]_vars

SpecAuth == InitAuth /\ [][Next]_vars

SpecCors == InitCors /\ [][Next]_vars

---------------------------------------------------------------------------
(* The terms of the properties *)

\* the string the environment gives for a variable: "" when the variable is
\* absent or the environment-variable source is unavailable
EnvValue(key) == IF metaDefined /\ envDefined /\ key \in DOMAIN env THEN env[key] ELSE ""

\* config.auth as the claims name it
TokenSet == config.auth.token.type = "string" /\ config.auth.token.str # ""

CredentialsSet ==
    /\ config.auth.username.type = "string" /\ config.auth.username.str # ""
    /\ config.auth.appPassword.type = "string" /\ config.auth.appPassword.str # ""

\* browser storage is available and holds a non-empty authToken
StoredTokenSet ==
    window = "storage" /\ "authToken" \in DOMAIN localStorage /\ localStorage["authToken"] # ""

Called(op) == pc = "ready" /\ result.op = op

Returned(v) == result.threw = "" /\ result.value = v

StartsWithBasic(s) == Len(s) >= 6 /\ SubSeq(s, 1, 6) = "Basic "

---------------------------------------------------------------------------
(* getAuthHeader *)

\* C1: whenever auth.token is a non-empty string T, getAuthHeader() returns exactly
\* "Basic T", whatever username, appPassword and the stored authToken are.
C1_TokenTakesPriority ==
    Called("getAuthHeader") /\ TokenSet
        => Returned(JSString("Basic " \o config.auth.token.str))

\* C1 witness: a call with token, username, password and stored token all set
C1_Witness ==
    /\ Called("getAuthHeader")
    /\ config.auth.token.str = "T"
    /\ CredentialsSet
    /\ StoredTokenSet
    /\ result.value = JSString("Basic T")

\* C3: the stored token is the third source: the result comes from the stored
\* token (the return at line 139, "Basic S") exactly when auth.token is empty,
\* username and appPassword are not both non-empty, storage is available and S is
\* non-empty; in no other case does the result come from the stored token.
C3_StoredTokenThird ==
    Called("getAuthHeader") =>
        /\ (result.line = 139) <=> (~TokenSet /\ ~CredentialsSet /\ StoredTokenSet)
        /\ (~TokenSet /\ ~CredentialsSet /\ StoredTokenSet)
              => Returned(JSString("Basic " \o localStorage["authToken"]))

\* C3 witness: only the username is set and the stored token is returned
C3_Witness ==
    /\ Called("getAuthHeader")
    /\ ~TokenSet
    /\ config.auth.username.str = "u"
    /\ config.auth.appPassword.str = ""
    /\ StoredTokenSet
    /\ result.value = JSString("Basic S")

\* the character with a code unit in the printable ASCII range
CodeChar(code) == IF code < 96 THEN CharAt(AsciiLow, code - 31) ELSE CharAt(AsciiHigh, code - 96)

\* the value of a base64 character, 0 for the padding character
Base64Value(c) == IF c = "=" THEN 0 ELSE IndexOf(c, Base64Alphabet) - 1

\* the text a base64 payload decodes to (atob), four characters to three bytes
RECURSIVE Base64Decode(_)
Base64Decode(t) ==
    IF Len(t) < 4 THEN ""
    ELSE LET v == [i \in 1..4 |-> Base64Value(CharAt(t, i))]
             b1 == v[1] * 4 + v[2] \div 16
             b2 == (v[2] % 16) * 16 + v[3] \div 4
             b3 == (v[3] % 4) * 64 + v[4]
         IN  (IF CharAt(t, 3) = "=" THEN CodeChar(b1)
              ELSE IF CharAt(t, 4) = "=" THEN CodeChar(b1) \o CodeChar(b2)
              ELSE CodeChar(b1) \o CodeChar(b2) \o CodeChar(b3))
             \o Base64Decode(SubSeq(t, 5, Len(t)))

\* C2: whenever auth.token is empty and username u and appPassword p are both
\* non-empty, getAuthHeader() returns "Basic " followed by the base64 encoding
\* of "u:p", whatever the browser storage is.
C2_CredentialsEncoded ==
    Called("getAuthHeader") /\ ~TokenSet /\ CredentialsSet =>
        /\ result.threw = ""
        /\ result.value.type = "string"
        /\ StartsWithBasic(result.value.str)
        /\ Len(result.value.str) % 4 = 2
        /\ Base64Decode(SubSeq(result.value.str, 7, Len(result.value.str)))
              = config.auth.username.str \o ":" \o config.auth.appPassword.str

\* C4: getAuthHeader() returns the empty string when none of the three sources
\* is present, and in every other case a non-empty string that begins with "Basic ".
C4_EmptyOrBasic ==
    Called("getAuthHeader") =>
        /\ result.threw = ""
        /\ result.value.type = "string"
        /\ IF ~TokenSet /\ ~CredentialsSet /\ ~StoredTokenSet
           THEN result.value.str = ""
           ELSE StartsWithBasic(result.value.str)

\* C5: the module never surfaces an exception: module load builds the
\* configuration, and every call of getAuthHeader(), isFeatureEnabled(name) and
\* getApiUrl(service) returns a value instead of raising a failure.
C5_NeverThrows ==
    pc = "ready" =>
        /\ DOMAIN config = {"api", "auth", "services", "app", "pagination", "features",
                            "email", "storage", "analytics", "security"}
        /\ result.threw = ""
        /\ result.op = "getAuthHeader" => result.value.type = "string"
        /\ result.op = "isFeatureEnabled" => result.value.type = "boolean"
        /\ result.op = "getApiUrl" => result.value.type = "string"

---------------------------------------------------------------------------
(* The configuration object *)

\* the configuration field that is read from each environment variable
LeafOf(key) ==
    CASE key = "VITE_GEODIR_API_URL" -> config.api.geodir
      [] key = "VITE_WP_API_URL" -> config.api.wordpress
      [] key = "VITE_DOKAN_API_URL" -> config.api.dokan
      [] key = "VITE_API_TIMEOUT" -> config.api.timeout
      [] key = "VITE_WP_USERNAME" -> config.auth.username
      [] key = "VITE_WP_APP_PASSWORD" -> config.auth.appPassword
      [] key = "VITE_API_AUTH_TOKEN" -> config.auth.token
      [] key = "VITE_JWT_SECRET" -> config.auth.jwtSecret
      [] key = "VITE_JWT_EXPIRATION" -> config.auth.jwtExpiration
      [] key = "VITE_UNSPLASH_ACCESS_KEY" -> config.services.unsplash
      [] key = "VITE_GOOGLE_MAPS_API_KEY" -> config.services.googleMaps
      [] key = "VITE_STRIPE_PUBLISHABLE_KEY" -> config.services.stripe.publishableKey
      [] key = "VITE_STRIPE_SECRET_KEY" -> config.services.stripe.secretKey
      [] key = "VITE_PAYPAL_CLIENT_ID" -> config.services.paypal.clientId
      [] key = "VITE_PAYPAL_SECRET" -> config.services.paypal.secret
      [] key = "VITE_APP_ENV" -> config.app.env
      [] key = "VITE_APP_URL" -> config.app.url
      [] key = "VITE_DEFAULT_PER_PAGE" -> config.pagination.defaultPerPage
      [] key = "VITE_MAX_PER_PAGE" -> config.pagination.maxPerPage
      [] key = "VITE_ENABLE_REVIEWS" -> config.features.reviews
      [] key = "VITE_ENABLE_WISHLIST" -> config.features.wishlist
      [] key = "VITE_ENABLE_CHAT" -> config.features.chat
      [] key = "VITE_ENABLE_NOTIFICATIONS" -> config.features.notifications
      [] key = "VITE_SMTP_HOST" -> config.email.smtp.host
      [] key = "VITE_SMTP_PORT" -> config.email.smtp.port
      [] key = "VITE_SMTP_USER" -> config.email.smtp.user
      [] key = "VITE_SMTP_PASSWORD" -> config.email.smtp.password
      [] key = "VITE_SMTP_FROM" -> config.email.from
      [] key = "VITE_SMTP_FROM_NAME" -> config.email.fromName
      [] key = "VITE_CDN_URL" -> config.storage.cdnUrl
      [] key = "VITE_AWS_ACCESS_KEY_ID" -> config.storage.aws.accessKeyId
      [] key = "VITE_AWS_SECRET_ACCESS_KEY" -> config.storage.aws.secretAccessKey
      [] key = "VITE_AWS_REGION" -> config.storage.aws.region
      [] key = "VITE_AWS_S3_BUCKET" -> config.storage.aws.bucket
      [] key = "VITE_GA_TRACKING_ID" -> config.analytics.googleAnalytics
      [] key = "VITE_FB_PIXEL_ID" -> config.analytics.facebookPixel
      [] key = "VITE_SENTRY_DSN" -> config.analytics.sentry
      [] key = "VITE_RATE_LIMIT_REQUESTS" -> config.security.rateLimit.requests
      [] key = "VITE_RATE_LIMIT_WINDOW" -> config.security.rateLimit.window
      [] key = "VITE_SESSION_SECRET" -> config.security.sessionSecret

\* the documented default of each variable: the table of external interfaces,
\* with the three base URLs it calls "fixed URL defaults" written out
DocumentedDefault(key) ==
    CASE key = "VITE_GEODIR_API_URL" -> JSString("https://shoplocal.kinsta.cloud/wp-json/geodir/v2")
      [] key = "VITE_WP_API_URL" -> JSString("https://shoplocal.kinsta.cloud/wp-json/wp/v2")
      [] key = "VITE_DOKAN_API_URL" -> JSString("https://shoplocal.kinsta.cloud/wp-json/dokan/v1")
      [] key = "VITE_API_TIMEOUT" -> JSNumber(10000)
      [] key = "VITE_JWT_EXPIRATION" -> JSString("7d")
      [] key = "VITE_APP_ENV" -> JSString("development")
      [] key = "VITE_APP_URL" -> JSString("http://localhost:5173")
      [] key = "VITE_DEFAULT_PER_PAGE" -> JSNumber(20)
      [] key = "VITE_MAX_PER_PAGE" -> JSNumber(100)
      [] key = "VITE_ENABLE_REVIEWS" -> JSBoolean(TRUE)
      [] key = "VITE_ENABLE_WISHLIST" -> JSBoolean(TRUE)
      [] key = "VITE_ENABLE_CHAT" -> JSBoolean(FALSE)
      [] key = "VITE_ENABLE_NOTIFICATIONS" -> JSBoolean(TRUE)
      [] key = "VITE_SMTP_PORT" -> JSNumber(587)
      [] key = "VITE_SMTP_FROM" -> JSString("noreply@shoplocal.com")
      [] key = "VITE_SMTP_FROM_NAME" -> JSString("ShopLocal Marketplace")
      [] key = "VITE_AWS_REGION" -> JSString("us-east-1")
      [] key = "VITE_RATE_LIMIT_REQUESTS" -> JSNumber(100)
      [] key = "VITE_RATE_LIMIT_WINDOW" -> JSNumber(900000)
      [] OTHER -> JSString("")

FeatureKey(feature) ==
    CASE feature = "reviews" -> "VITE_ENABLE_REVIEWS"
      [] feature = "wishlist" -> "VITE_ENABLE_WISHLIST"
      [] feature = "chat" -> "VITE_ENABLE_CHAT"
      [] feature = "notifications" -> "VITE_ENABLE_NOTIFICATIONS"

ServiceKey(service) ==
    CASE service = "geodir" -> "VITE_GEODIR_API_URL"
      [] service = "wordpress" -> "VITE_WP_API_URL"
      [] service = "dokan" -> "VITE_DOKAN_API_URL"

\* C6: for each of the four feature flags, the field is true if the variable is
\* exactly "true", and the key's documented default (not its negation) if the
\* variable is absent, empty or any other string; isFeatureEnabled returns it.
C6_BooleanKeys ==
    pc = "ready" =>
        \A feature \in Features :
            LET expected == IF EnvValue(FeatureKey(feature)) = "true"
                            THEN JSBoolean(TRUE)
                            ELSE DocumentedDefault(FeatureKey(feature))
            IN  /\ config.features[feature] = expected
                /\ result.op = "isFeatureEnabled" /\ result.arg = feature => Returned(expected)

\* C6 witness: VITE_ENABLE_REVIEWS is "false" and isFeatureEnabled("reviews") is true
C6_Witness ==
    /\ Called("isFeatureEnabled")
    /\ result.arg = "reviews"
    /\ EnvValue("VITE_ENABLE_REVIEWS") = "false"
    /\ result.value = JSBoolean(TRUE)

\* C7: for every recognized key whose variable is absent or empty, or when the
\* environment-variable source is unavailable, the field equals the documented
\* default exactly, and getApiUrl(service) returns the default base URL.
C7_Defaults ==
    pc = "ready" =>
        /\ \A key \in Keys \ {CorsKey} :
              EnvValue(key) = "" => LeafOf(key) = DocumentedDefault(key)
        /\ EnvValue(CorsKey) = "" => config.security.corsOrigins = <<>>
        /\ \A service \in Services :
              /\ EnvValue(ServiceKey(service)) = ""
              /\ result.op = "getApiUrl"
              /\ result.arg = service
              => Returned(DocumentedDefault(ServiceKey(service)))

\* C7 witness: import.meta has no env, and getApiUrl("wordpress") gives the default
C7_Witness ==
    /\ Called("getApiUrl")
    /\ result.arg = "wordpress"
    /\ metaDefined
    /\ ~envDefined
    /\ result.value = JSString("https://shoplocal.kinsta.cloud/wp-json/wp/v2")
    /\ config.api.timeout = JSNumber(10000)
    /\ config.features.chat = JSBoolean(FALSE)

MaxNumber == 50

\* the decimal numeral of a natural number
RECURSIVE Numeral(_)
Numeral(n) ==
    IF n < 10 THEN CharAt(Digits, n + 1)
    ELSE Numeral(n \div 10) \o CharAt(Digits, (n % 10) + 1)

\* the decimal string of an integer
DecimalString(n) == IF n < 0 THEN "-" \o Numeral(0 - n) ELSE Numeral(n)

\* the decimal strings of the numbers from -MaxNumber to MaxNumber
Decimals == [n \in (0 - MaxNumber)..MaxNumber |-> DecimalString(n)]

\* C8: for every numeric key, a variable set to the decimal string of a number
\* yields that number ("0" yields 0, not the default), and an empty or absent
\* variable yields the key's default.
C8_NumericKeys ==
    pc = "ready" =>
        \A key \in NumberKeys :
            IF EnvValue(key) = ""
            THEN LeafOf(key) = DocumentedDefault(key)
            ELSE \A n \in DOMAIN Decimals :
                    EnvValue(key) = Decimals[n] => LeafOf(key) = JSNumber(n)

\* C8 witness: VITE_API_TIMEOUT is "0" and api.timeout is 0
C8_Witness ==
    /\ pc = "ready"
    /\ EnvValue("VITE_API_TIMEOUT") = "0"
    /\ config.api.timeout = JSNumber(0)

\* C10: every leaf of the configuration other than security.corsOrigins is a
\* string, a number or a boolean; app.isDevelopment and app.isProduction are
\* always booleans.
C10_LeafTypes ==
    pc = "ready" =>
        /\ \A key \in Keys \ {CorsKey} : LeafOf(key).type \in {"string", "number", "boolean"}
        /\ config.app.isDevelopment.type = "boolean"
        /\ config.app.isProduction.type = "boolean"

---------------------------------------------------------------------------
(* security.corsOrigins *)

\* the positions at which a comma-free run of s begins
RunStarts(s) ==
    {i \in 1..Len(s) : CharAt(s, i) # "," /\ (i = 1 \/ CharAt(s, i - 1) = ",")}

\* the position at which the comma-free run beginning at i ends
RunEnd(s, i) ==
    CHOOSE j \in i..Len(s) :
        /\ \A m \in i..j : CharAt(s, m) # ","
        /\ j = Len(s) \/ CharAt(s, j + 1) = ","

\* the n-th smallest element of a set of positions
Nth(positions, n) == CHOOSE i \in positions : Cardinality({j \in positions : j <= i}) = n

\* C9: security.corsOrigins is the sequence of the comma-separated segments of
\* VITE_CORS_ORIGINS with every empty segment removed and the order kept
\* ("a,b,,c" yields <<"a", "b", "c">>); it is empty when the variable is absent
\* or empty, and no element is the empty string.
C9_CorsOrigins ==
    pc = "ready" =>
        LET raw == EnvValue(CorsKey)
            origins == config.security.corsOrigins
            starts == RunStarts(raw)
        IN  /\ Len(origins) = Cardinality(starts)
            /\ \A n \in 1..Len(origins) :
                  LET i == Nth(starts, n)
                  IN  origins[n] = SubSeq(raw, i, RunEnd(raw, i)) /\ origins[n] # ""
            /\ raw = "" => origins = <<>>
            /\ raw = "a,b,,c" => origins = <<"a", "b", "c">>

\* C9 witness: VITE_CORS_ORIGINS is "a,b,,c"
C9_Witness ==
    /\ pc = "ready"
    /\ EnvValue(CorsKey) = "a,b,,c"
    /\ config.security.corsOrigins = <<"a", "b", "c">>

=============================================================================
